---- MODULE Spec2Model ----
(***************************************************************************)
(* The send-chat-message edge function of insightlm                        *)
(* (src/supabase/functions/send-chat-message/index.ts).                    *)
(*                                                                         *)
(* The file holds three serve() handlers: a first relay handler (lines     *)
(* 9-265), a second relay handler that also classifies the webhook's 2xx   *)
(* answers (lines 274-582) and the chat-diagnostics handler (lines         *)
(* 591-736).  A relay request is one process; it takes one step per await  *)
(* of the handler (body read, notebook lookup, sources read, history       *)
(* insert, webhook fetch), and everything the handler does synchronously   *)
(* after an await belongs to the step of that await.                       *)
(*                                                                         *)
(* The storage client, the webhook and the request body are the           *)
(* environment: an awaited call resolves with data, resolves with an       *)
(* error result, or rejects (throws).                                      *)
(***************************************************************************)
EXTENDS Integers, Sequences, FiniteSets, TLC

\* Number of relay requests of a behaviour (they run concurrently).
NumReq == 2

Procs == 1..NumReq

(***************************************************************************)
(* JavaScript values, tagged: the tag is compared before the payload.      *)
(***************************************************************************)
Undef == [t |-> "undefined"]
Null == [t |-> "null"]
Str(s) == [t |-> "str", v |-> s]
Num(n) == [t |-> "num", v |-> n]
Bool(b) == [t |-> "bool", v |-> b]
Arr(items) == [t |-> "arr", v |-> items]
Obj(fields) == [t |-> "obj", v |-> fields]
EmptyObj == [t |-> "obj", v |-> <<>>]

\* ToBoolean: what `!x`, `x || y` and `if (x)` test.
Truthy(x) ==
  CASE x.t = "undefined" -> FALSE
    [] x.t = "null" -> FALSE
    [] x.t = "str" -> x.v # ""
    [] x.t = "num" -> x.v # 0
    [] x.t = "bool" -> x.v
    [] OTHER -> TRUE

\* x.k for a value that is neither null nor undefined (there the access throws).
Get(x, k) ==
  IF x.t = "obj" /\ k \in DOMAIN x.v THEN x.v[k] ELSE Undef

\* String.prototype.includes
Includes(s, sub) ==
  \E i \in 1..(Len(s) - Len(sub) + 1) : SubSeq(s, i, i + Len(sub) - 1) = sub

(***************************************************************************)
(* JSON.parse of the texts the environment sends: request bodies and       *)
(* webhook answers.  SyntaxError is the parse failure.                     *)
(***************************************************************************)
SyntaxError == [t |-> "SyntaxError"]

ApologyText == "Sorry, I encountered an error"

JSONparse(text) ==
  CASE text = "{\"session_id\":\"nb1\",\"message\":\"hi\"}" ->
         Obj([session_id |-> Str("nb1"), message |-> Str("hi")])
    [] text = "{\"session_id\":\"nb2\",\"message\":\"hi\"}" ->
         Obj([session_id |-> Str("nb2"), message |-> Str("hi")])
    [] text = "{\"session_id\":\"nb1\"}" ->
         Obj([session_id |-> Str("nb1")])
    [] text = "{\"message\":\"hi\"}" ->
         Obj([message |-> Str("hi")])
    [] text = "{\"session_id\":\"\",\"message\":\"\"}" ->
         Obj([session_id |-> Str(""), message |-> Str("")])
    [] text = "{\"output\":[{\"text\":\"Paris is the capital of France\",\"citations\":[]}]}" ->
         Obj([output |-> Arr(<<Obj([text |-> Str("Paris is the capital of France"),
                                    citations |-> Arr(<<>>)])>>)])
    [] text = "{\"output\":[{\"text\":\"Sorry, I encountered an error talking to the model\",\"citations\":[]}]}" ->
         Obj([output |-> Arr(<<Obj([text |-> Str("Sorry, I encountered an error talking to the model"),
                                    citations |-> Arr(<<>>)])>>)])
    [] text = "{\"output\":[{\"text\":\"Hello\"},{\"text\":\"Oops. Sorry, I encountered an error\"}]}" ->
         Obj([output |-> Arr(<<Obj([text |-> Str("Hello")]),
                               Obj([text |-> Str("Oops. Sorry, I encountered an error")])>>)])
    [] text = "{\"output\":[null,{\"text\":\"Sorry, I encountered an error\"}]}" ->
         Obj([output |-> Arr(<<Null, Obj([text |-> Str("Sorry, I encountered an error")])>>)])
    [] text = "{\"output\":\"Sorry, I encountered an error\"}" ->
         Obj([output |-> Str("Sorry, I encountered an error")])
    [] text = "{\"error\":\"workflow failed\"}" ->
         Obj([error |-> Str("workflow failed")])
    [] text = "{\"error\":\"\"}" ->
         Obj([error |-> Str("")])
    [] text = "{\"notebookId\":\"nb1\"}" -> Obj([notebookId |-> Str("nb1")])
    [] text = "{\"notebookId\":\"nb2\"}" -> Obj([notebookId |-> Str("nb2")])
    [] text = "{}" -> EmptyObj
    [] text = "null" -> Null
    [] OTHER -> SyntaxError

(***************************************************************************)
(* The environment: request bodies, storage rows, configuration values,    *)
(* webhook answers and the messages of the errors it raises.               *)
(***************************************************************************)
NoBody == "<no body>"

RequestBodies ==
  { NoBody,
    "not json",
    "{\"session_id\":\"nb1\",\"message\":\"hi\"}",
    "{\"session_id\":\"nb2\",\"message\":\"hi\"}",
    "{\"session_id\":\"nb1\"}",
    "{\"message\":\"hi\"}",
    "{\"session_id\":\"\",\"message\":\"\"}" }

\* The two relay handlers of the file.
Handlers == {"relay1", "relay2"}

\* The notebooks table: nb1 is a row, nb2 is not.
Notebooks == {"nb1"}

\* The sources table, one of these at the start (this code never writes it).
SourceTables ==
  { <<>>,
    <<[id |-> "s1", notebook_id |-> "nb1", title |-> "a.pdf", processing_status |-> "pending"]>>,
    <<[id |-> "s1", notebook_id |-> "nb1", title |-> "a.pdf", processing_status |-> "completed"]>>,
    <<[id |-> "s1", notebook_id |-> "nb1", title |-> "a.pdf", processing_status |-> "failed"],
      [id |-> "s2", notebook_id |-> "nb1", title |-> "b.pdf", processing_status |-> "completed"]>> }

ChatUrls == {Undef, Str("https://n8n.example.com/webhook/chat"), Str("https://n8n.example.com/hook/chat")}
AuthValues == {Undef, Str("secret")}

\* Statuses the webhook answers with, and the bodies of its answers: any of
\* WebhookBodies with a 2xx status, one of ErrorBodies with another status.
WebhookStatuses == {200, 201, 500, 503}
ErrorBodies == {"Internal Server Error", "{\"error\":\"workflow failed\"}"}
WebhookBodies ==
  { "ok",
    "Internal Server Error",
    "{\"output\":[{\"text\":\"Paris is the capital of France\",\"citations\":[]}]}",
    "{\"output\":[{\"text\":\"Sorry, I encountered an error talking to the model\",\"citations\":[]}]}",
    "{\"output\":[{\"text\":\"Hello\"},{\"text\":\"Oops. Sorry, I encountered an error\"}]}",
    "{\"output\":[null,{\"text\":\"Sorry, I encountered an error\"}]}",
    "{\"output\":\"Sorry, I encountered an error\"}",
    "{\"error\":\"workflow failed\"}",
    "{\"error\":\"\"}",
    "{}",
    "null" }

\* What an awaited fetch(webhookUrl) gives: it rejects, or a status and a body.
FetchFailed == [threw |-> TRUE, status |-> 0, text |-> "error sending request"]
WebhookReplies ==
  {FetchFailed} \cup
  {[threw |-> FALSE, status |-> s, text |-> b] :
     s \in {x \in WebhookStatuses : x \in 200..299}, b \in WebhookBodies} \cup
  {[threw |-> FALSE, status |-> s, text |-> b] :
     s \in {x \in WebhookStatuses : x \notin 200..299}, b \in ErrorBodies}
NotCalled == [threw |-> FALSE, status |-> 0, text |-> "<not called>"]

\* What an awaited storage call gives besides its data.
StorageOutcomes == {"ok", "error", "throw"}
StorageErrorMessage == "connection to storage failed"
NoRowsMessage == "JSON object requested, multiple (or no) rows returned"
StorageFaultMessage == "storage call rejected"
BodyFaultMessage(body) ==
  IF body = NoBody THEN "Unexpected end of JSON input" ELSE "Unexpected token in JSON"
Now == "2026-01-01T00:00:00.000Z"

VARIABLES
  config,    \* Deno.env: NOTEBOOK_CHAT_URL, NOTEBOOK_GENERATION_AUTH
  sources,   \* the rows of the sources table
  history,   \* the rows of n8n_chat_histories, in insertion order
  webhook,   \* the answer of the n8n webhook, fixed by the first dispatch
  pc,        \* per request: the await it is at
  req,       \* per request: the handler serving it and the body sent
  caught,    \* per request: the message of the error the outer catch caught
  resp,      \* per request: the Response returned
  ops,       \* per request: the storage and webhook calls it made, in order
  documents, \* the rows of the documents table (the vector store)
  diag       \* the chat-diagnostics request: the await it is at, what it gathered

vars == <<config, sources, history, webhook, pc, req, caught, resp, ops, documents, diag>>

NoRequest == [handler |-> "none", body |-> NoBody]
NoResponse == [status |-> 0]

\* The diagnostics request before it arrives: nothing gathered, no reads made.
NoDiag ==
  [pc |-> "idle", body |-> NoBody, environment |-> Undef, notebook |-> Undef,
   sources |-> Undef, vectorStore |-> Undef, chatHistory |-> Undef,
   resp |-> NoResponse, ops |-> <<>>]

Init ==
  /\ config \in [NOTEBOOK_CHAT_URL : ChatUrls, NOTEBOOK_GENERATION_AUTH : AuthValues]
  /\ sources \in SourceTables
  /\ history = <<>>
  /\ webhook = NotCalled
  /\ pc = [p \in Procs |-> "idle"]
  /\ req = [p \in Procs |-> NoRequest]
  /\ caught = [p \in Procs |-> ""]
  /\ resp = [p \in Procs |-> NoResponse]
  /\ ops = [p \in Procs |-> <<>>]
  /\ documents = <<>>
  /\ diag = NoDiag

(***************************************************************************)
(* Responses.                                                              *)
(***************************************************************************)
corsHeaders ==
  ("Access-Control-Allow-Origin" :> "*") @@
  ("Access-Control-Allow-Headers" :> "authorization, x-client-info, apikey, content-type")

JsonHeaders == corsHeaders @@ ("Content-Type" :> "application/json")

\* new Response(JSON.stringify(body), {status, headers}); status defaults to 200.
Response(status, body) == [status |-> status, headers |-> JsonHeaders, body |-> body]

\* JSON.stringify leaves out a property whose value is undefined.
Stringified(fields) ==
  Obj([k \in {f \in DOMAIN fields : fields[f].t # "undefined"} |-> fields[k]])

ValidationError(session_id, message) ==
  Response(400, Stringified(
    [error |-> Str("session_id and message are required"),
     details |-> Obj([session_id |-> Bool(Truthy(session_id)),
                      message |-> Bool(Truthy(message))])]))

NotFoundError(notebookError) ==
  Response(404, Stringified(
    [error |-> Str("Notebook not found or access denied"),
     details |-> IF notebookError.t \in {"null", "undefined"} THEN Undef
                 ELSE Get(notebookError, "message")]))

SourcesReadError(sourcesError) ==
  Response(500, Stringified(
    [error |-> Str("Failed to check notebook sources"),
     details |-> Get(sourcesError, "message")]))

IneligibleError ==
  Response(400, Stringified(
    [error |-> Str("No processed sources available for this notebook"),
     details |-> Str("Please wait for sources to finish processing before chatting")]))

MissingUrlError ==
  Response(500, Stringified(
    [error |-> Str("Chat service not configured"),
     details |-> Str("NOTEBOOK_CHAT_URL environment variable not set")]))

MissingAuthError ==
  Response(500, Stringified(
    [error |-> Str("Chat service authentication not configured"),
     details |-> Str("NOTEBOOK_GENERATION_AUTH environment variable not set")]))

TransportError(status, errorText) ==
  Response(500, Stringified(
    [error |-> Str("n8n webhook failed with status: " \o ToString(status)),
     details |-> Str(errorText),
     suggestion |-> Str("Check your n8n workflow configuration and credentials")]))

SemanticError(parsedResponse) ==
  Response(500, Stringified(
    [success |-> Bool(FALSE),
     error |-> Str("n8n workflow returned an error"),
     details |-> Str("Check the chat for debugging information"),
     n8n_response |-> parsedResponse]))

SuccessResponse(webhookData) ==
  Response(200, Stringified(
    [success |-> Bool(TRUE),
     message |-> Str("Message sent to chat service successfully"),
     data |-> Str(webhookData)]))

\* A faulty variant: the catch-all answers with the bare error text
CatchAllError_PlainText(message) ==
  [status |-> 500, headers |-> corsHeaders, body |-> Str(message)]

CatchAllError(message) ==
  Response(500, Stringified(
    [error |-> IF message # "" THEN Str(message)
               ELSE Str("Failed to send message to chat service"),
     details |-> Str("Check the function logs for more information")]))

(***************************************************************************)
(* The handler's decisions.                                                *)
(***************************************************************************)
\* A faulty variant: only session_id is tested
MissingRequiredFields_SessionOnly(session_id, message) ==
  ~Truthy(session_id)

\* if (!session_id || !message)
MissingRequiredFields(session_id, message) ==
  ~Truthy(session_id) \/ ~Truthy(message)

\* A faulty variant: the lookup is tested with `notebook === undefined` alone
NotebookNotFound_UndefinedOnly(notebook, notebookError) ==
  notebook.t = "undefined"

\* if (notebookError || !notebook)
NotebookNotFound(notebook, notebookError) ==
  Truthy(notebookError) \/ ~Truthy(notebook)

\* A faulty variant: any source counts, whatever its processing_status
hasProcessedSources_AnySource(data) ==
  IF data.t \in {"null", "undefined"} THEN FALSE ELSE Len(data.v) > 0

\* sources?.some(source => source.processing_status === 'completed') || false
hasProcessedSources(data) ==
  IF data.t \in {"null", "undefined"} THEN FALSE
  ELSE \E i \in 1..Len(data.v) : Get(data.v[i], "processing_status") = Str("completed")

\* A faulty variant: the error of the sources read is not looked at
SourcesReadFailed_Ignored(sourcesError) == FALSE

\* if (sourcesError)
SourcesReadFailed(sourcesError) == Truthy(sourcesError)

\* A faulty variant: a failed human-message insert ends the request
UserMessageErrorAborts_OnError(userMessageError) == Truthy(userMessageError)

\* if (userMessageError) { console.error(...) }: logged, the relay continues.
UserMessageErrorAborts(userMessageError) == FALSE

\* A faulty variant: a configuration value is tested with `=== ''` alone
NotSet_EmptyStringOnly(value) == value = Str("")

\* if (!webhookUrl), if (!authHeader)
NotSet(value) == ~Truthy(value)

\* A faulty variant: every status from 200 up counts as ok
ResponseOk_NoUpperBound(status) == status >= 200

\* webhookResponse.ok
ResponseOk(status) == status >= 200 /\ status <= 299

\* parsedResponse.output.some(item => item.text &&
\*   item.text.includes('Sorry, I encountered an error')), from item i on:
\* "yes", "no", or "fault" when the callback throws a TypeError.
RECURSIVE SomeApology(_, _)
SomeApology(items, i) ==
  IF i > Len(items) THEN "no"
  ELSE IF items[i].t \in {"null", "undefined"} THEN "fault"
  ELSE LET text == Get(items[i], "text") IN
    IF ~Truthy(text) THEN SomeApology(items, i + 1)
    ELSE IF text.t = "str"
      THEN IF Includes(text.v, ApologyText) THEN "yes" ELSE SomeApology(items, i + 1)
    ELSE IF text.t = "arr"
      THEN IF \E j \in 1..Len(text.v) : text.v[j] = Str(ApologyText)
             THEN "yes" ELSE SomeApology(items, i + 1)
    ELSE "fault"

\* parsedResponse.error || (parsedResponse.output && parsedResponse.output.some(...))
IndicatesError(parsedResponse) ==
  IF parsedResponse.t = "null" THEN "fault"
  ELSE IF Truthy(Get(parsedResponse, "error")) THEN "yes"
  ELSE LET output == Get(parsedResponse, "output") IN
    IF ~Truthy(output) THEN "no"
    ELSE IF output.t = "arr" THEN SomeApology(output.v, 1)
    ELSE "fault"

\* A faulty variant: a fault of the classification counts as an error answer
ClassifiedAsError_FaultIsError(handler, webhookData) ==
  /\ handler = "relay2"
  /\ JSONparse(webhookData).t # "SyntaxError"
  /\ IndicatesError(JSONparse(webhookData)) # "no"

\* What the handler makes of a 2xx answer: relay1 returns every one as a
\* success; relay2 parses it inside try { } catch (parseError) { } and returns a
\* success unless the parsed answer indicates an error.
ClassifiedAsError(handler, webhookData) ==
  /\ handler = "relay2"
  /\ JSONparse(webhookData).t # "SyntaxError"
  /\ IndicatesError(JSONparse(webhookData)) = "yes"

(***************************************************************************)
(* The rows the handler inserts into n8n_chat_histories.  `by` is not a    *)
(* column: it names the request that made the insert.                      *)
(***************************************************************************)
Envelope(text) == "{\"output\":[{\"text\":\"" \o text \o "\",\"citations\":[]}]}"

HumanRow(p, session_id, message) ==
  [session_id |-> session_id.v, by |-> p,
   message |-> [type |-> "human", content |-> message.v,
                additional_kwargs |-> EmptyObj, response_metadata |-> EmptyObj]]

TransportErrorRow(p, session_id, status) ==
  [session_id |-> session_id.v, by |-> p,
   message |-> [type |-> "ai",
                content |-> Envelope("Sorry, I encountered an error processing your request. The chat service responded with status "
                                     \o ToString(status)
                                     \o ". Please check your n8n configuration and try again."),
                additional_kwargs |-> EmptyObj,
                response_metadata |-> Obj([error |-> Bool(TRUE), status |-> Num(status)])]]

SemanticErrorRow(p, session_id, parsedResponse) ==
  [session_id |-> session_id.v, by |-> p,
   message |-> [type |-> "ai",
                content |-> Envelope("I'm having trouble accessing your sources right now. This could be due to:\\n\\n1. **Sources still processing** - Please wait for all sources to finish processing\\n2. **n8n workflow configuration** - Check your n8n Chat workflow credentials and connections\\n3. **Vector store issues** - Verify your Supabase vector store is properly configured\\n4. **Missing API keys** - Ensure OpenAI and other required API keys are set in n8n\\n\\nPlease check your n8n workflow logs for more details."),
                additional_kwargs |-> EmptyObj,
                response_metadata |-> Obj([error |-> Bool(TRUE),
                                           n8n_response |-> parsedResponse,
                                           timestamp |-> Str(Now)])]]

TechnicalErrorRow(p, session_id, message) ==
  [session_id |-> session_id.v, by |-> p,
   message |-> [type |-> "ai",
                content |-> Envelope("Sorry, I encountered a technical error: " \o message
                                     \o ". Please try again or contact support if the issue persists."),
                additional_kwargs |-> EmptyObj,
                response_metadata |-> Obj([error |-> Bool(TRUE), errorMessage |-> Str(message)])]]

(***************************************************************************)
(* The relay handler, one action per await.                                *)
(***************************************************************************)
ParsedRequest(p) == JSONparse(req[p].body)
SessionId(p) == Get(JSONparse(req[p].body), "session_id")
Message(p) == Get(JSONparse(req[p].body), "message")

\* The handler returns response r.
Return(p, r) ==
  /\ resp' = [resp EXCEPT ![p] = r]
  /\ pc' = [pc EXCEPT ![p] = "done"]
  /\ UNCHANGED caught

\* The handler goes on to the await named next.
Goto(p, next) ==
  /\ pc' = [pc EXCEPT ![p] = next]
  /\ UNCHANGED <<resp, caught>>

\* A faulty variant: a caught fault sends the request back to the dispatch
Throw_Redispatch(p, message) ==
  /\ caught' = [caught EXCEPT ![p] = message]
  /\ pc' = [pc EXCEPT ![p] = "dispatch"]
  /\ UNCHANGED resp

\* An awaited call rejects: control passes to the outer catch (error).
Throw(p, message) ==
  /\ caught' = [caught EXCEPT ![p] = message]
  /\ pc' = [pc EXCEPT ![p] = "catch"]
  /\ UNCHANGED resp

Call(p, op, on, res) ==
  ops' = [ops EXCEPT ![p] = Append(@, [op |-> op, on |-> on, res |-> res])]

\* await req.json(), the validation of the fields, createClient: request p
\* arrives at handler h with body b.
Receive(p, h, b) ==
  /\ pc[p] = "idle"
  /\ req' = [req EXCEPT ![p] = [handler |-> h, body |-> b]]
  /\ LET body == JSONparse(b) IN
       IF body.t = "SyntaxError"
         THEN Throw(p, BodyFaultMessage(b))
       ELSE IF MissingRequiredFields(Get(body, "session_id"), Get(body, "message"))
         THEN Return(p, ValidationError(Get(body, "session_id"), Get(body, "message")))
       ELSE Goto(p, "lookup")
  /\ UNCHANGED <<documents, diag, config, sources, history, webhook, ops>>

\* What from('notebooks').select(...).eq('id', session_id).single() resolves with.
NotebookResult(session_id, outcome) ==
  IF outcome = "error"
    THEN [data |-> Null, error |-> Obj([message |-> Str(StorageErrorMessage)])]
  ELSE IF session_id.v \in Notebooks
    THEN [data |-> Obj([id |-> session_id]), error |-> Null]
  ELSE [data |-> Null, error |-> Obj([message |-> Str(NoRowsMessage)])]

\* await supabaseClient.from('notebooks')...single(), and the not-found check.
LookupNotebook(p) ==
  /\ pc[p] = "lookup"
  /\ \E outcome \in StorageOutcomes :
       LET r == NotebookResult(SessionId(p), outcome) IN
         /\ Call(p, "select", "notebooks",
                 IF outcome = "throw" THEN "throw"
                 ELSE IF Truthy(r.error) THEN "error" ELSE "ok")
         /\ IF outcome = "throw" THEN Throw(p, StorageFaultMessage)
            ELSE IF NotebookNotFound(r.data, r.error) THEN Return(p, NotFoundError(r.error))
            ELSE Goto(p, "sources")
  /\ UNCHANGED <<documents, diag, config, sources, history, webhook, req>>

\* What from('sources').select(...).eq('notebook_id', session_id) resolves with.
SourcesResult(session_id, outcome) ==
  IF outcome = "error"
    THEN [data |-> Null, error |-> Obj([message |-> Str(StorageErrorMessage)])]
  ELSE [data |-> Arr(SelectSeq(
                   [i \in 1..Len(sources) |->
                      Obj([id |-> Str(sources[i].id),
                           notebook_id |-> Str(sources[i].notebook_id),
                           processing_status |-> Str(sources[i].processing_status)])],
                   LAMBDA row : row.v.notebook_id = session_id)),
        error |-> Null]

\* await supabaseClient.from('sources')..., and the eligibility check.
FetchSources(p) ==
  /\ pc[p] = "sources"
  /\ \E outcome \in StorageOutcomes :
       LET r == SourcesResult(SessionId(p), outcome) IN
         /\ Call(p, "select", "sources", outcome)
         /\ IF outcome = "throw" THEN Throw(p, StorageFaultMessage)
            ELSE IF SourcesReadFailed(r.error) THEN Return(p, SourcesReadError(r.error))
            ELSE IF ~hasProcessedSources(r.data) THEN Return(p, IneligibleError)
            ELSE Goto(p, "save_user")
  /\ UNCHANGED <<documents, diag, config, sources, history, webhook, req>>

\* What an insert into n8n_chat_histories resolves with, and the table after it.
InsertError(outcome) ==
  IF outcome = "ok" THEN Null ELSE Obj([message |-> Str(StorageErrorMessage)])

\* A faulty variant: the new row is put in front of the table
Inserted_AtFront(row, outcome) ==
  IF outcome = "ok" THEN <<row>> \o history ELSE history

Inserted(row, outcome) ==
  IF outcome = "ok" THEN Append(history, row) ELSE history

\* await insert of the human message, then the configuration checks.
SaveUserMessage(p) ==
  /\ pc[p] = "save_user"
  /\ \E outcome \in StorageOutcomes :
       /\ Call(p, "insert", "human", outcome)
       /\ history' = Inserted(HumanRow(p, SessionId(p), Message(p)), outcome)
       /\ IF outcome = "throw" THEN Throw(p, StorageFaultMessage)
          ELSE IF UserMessageErrorAborts(InsertError(outcome))
            THEN Return(p, CatchAllError(StorageErrorMessage))
          ELSE IF NotSet(config.NOTEBOOK_CHAT_URL) THEN Return(p, MissingUrlError)
          ELSE IF NotSet(config.NOTEBOOK_GENERATION_AUTH) THEN Return(p, MissingAuthError)
          ELSE Goto(p, "dispatch")
  /\ UNCHANGED <<documents, diag, config, sources, webhook, req>>

\* await fetch(webhookUrl, ...), await webhookResponse.text(), and the
\* classification of a 2xx answer.
Dispatch(p) ==
  /\ pc[p] = "dispatch"
  /\ \E reply \in (IF webhook = NotCalled THEN WebhookReplies ELSE {webhook}) :
       /\ webhook' = reply
       /\ Call(p, "fetch", "webhook", IF reply.threw THEN "throw" ELSE "ok")
       /\ IF reply.threw THEN Throw(p, reply.text)
          ELSE IF ~ResponseOk(reply.status) THEN Goto(p, "save_transport_error")
          ELSE IF ClassifiedAsError(req[p].handler, reply.text)
            THEN Goto(p, "save_semantic_error")
          ELSE Return(p, SuccessResponse(reply.text))
  /\ UNCHANGED <<documents, diag, config, sources, history, req>>

\* await insert of the assistant's error message after a non-2xx answer.
SaveTransportError(p) ==
  /\ pc[p] = "save_transport_error"
  /\ \E outcome \in StorageOutcomes :
       /\ Call(p, "insert", "ai", outcome)
       /\ history' = Inserted(TransportErrorRow(p, SessionId(p), webhook.status), outcome)
       /\ IF outcome = "throw" THEN Throw(p, StorageFaultMessage)
          ELSE Return(p, TransportError(webhook.status, webhook.text))
  /\ UNCHANGED <<documents, diag, config, sources, webhook, req>>

\* await insert of the assistant's error message after a 2xx answer that
\* indicates an error; the insert is inside try { } catch (parseError) { }.
SaveSemanticError(p) ==
  /\ pc[p] = "save_semantic_error"
  /\ \E outcome \in StorageOutcomes :
       /\ Call(p, "insert", "ai", outcome)
       /\ history' = Inserted(SemanticErrorRow(p, SessionId(p), JSONparse(webhook.text)), outcome)
       /\ IF outcome = "throw" THEN Return(p, SuccessResponse(webhook.text))
          ELSE Return(p, SemanticError(JSONparse(webhook.text)))
  /\ UNCHANGED <<documents, diag, config, sources, webhook, req>>

\* catch (error): req.clone() throws once the body was read; a request with
\* no body is cloned and its json() throws again.  Either way the inner catch
\* (saveError) takes over before body.session_id is looked at.
\* A faulty variant: the catch uses the session_id parsed at the start
RecoveredSessionId_Parsed(p) ==
  IF ParsedRequest(p).t = "SyntaxError" THEN Undef ELSE SessionId(p)

RecoveredSessionId(p) ==
  IF req[p].body # NoBody THEN Undef
  ELSE IF JSONparse(req[p].body).t = "SyntaxError" THEN Undef
  ELSE Get(JSONparse(req[p].body), "session_id")

Catch(p) ==
  /\ pc[p] = "catch"
  /\ IF Truthy(RecoveredSessionId(p))
       THEN \E outcome \in StorageOutcomes :
              /\ Call(p, "insert", "ai", outcome)
              /\ history' = Inserted(TechnicalErrorRow(p, RecoveredSessionId(p), caught[p]), outcome)
       ELSE UNCHANGED <<history, ops>>
  /\ Return(p, CatchAllError(caught[p]))
  /\ UNCHANGED <<documents, diag, config, sources, webhook, req>>

\* The awaits of request p after its arrival.
Step(p) ==
  \/ LookupNotebook(p)
  \/ FetchSources(p)
  \/ SaveUserMessage(p)
  \/ Dispatch(p)
  \/ SaveTransportError(p)
  \/ SaveSemanticError(p)
  \/ Catch(p)

\* One relay request (request 1), any handler, any body.
Arrive == \E h \in Handlers, b \in RequestBodies : Receive(1, h, b)

Next == Arrive \/ Step(1)

Spec == Init /\ [][Next]_vars

\* NumReq concurrent runs of one request: the later requests repeat request 1
\* (same handler, same body), and the awaits of all of them interleave.
Repeat ==
  \E p \in Procs \ {1} :
    /\ pc[1] # "idle"
    /\ Receive(p, req[1].handler, req[1].body)

NextRuns == Arrive \/ Repeat \/ \E p \in Procs : Step(p)

SpecRuns == Init /\ [][NextRuns]_vars

(***************************************************************************)
(* The chat-diagnostics handler, one action per await.  It reads the       *)
(* configuration, the notebook, its sources, its documents and its recent  *)
(* chat history, and writes nothing.                                       *)
(***************************************************************************)
DiagBodies ==
  { NoBody,
    "{}",
    "{\"notebookId\":\"nb1\"}",
    "{\"notebookId\":\"nb2\"}" }

\* The documents table, one of these at the start (this code never writes it).
DocumentTables ==
  { <<>>,
    <<[id |-> "d1", notebook_id |-> "nb1"]>> }

\* The chat history an earlier relay request (request 0) left behind.
PriorHistory ==
  <<HumanRow(0, Str("nb1"), Str("hi")), TransportErrorRow(0, Str("nb1"), 503)>>

HistoryTables == { <<>>, PriorHistory, PriorHistory \o PriorHistory \o PriorHistory }

\* .limit(5)
HistoryLimit == 5

InitDiag ==
  /\ config \in [NOTEBOOK_CHAT_URL : ChatUrls, NOTEBOOK_GENERATION_AUTH : AuthValues]
  /\ sources \in SourceTables
  /\ documents \in DocumentTables
  /\ history \in HistoryTables
  /\ webhook = NotCalled
  /\ pc = [p \in Procs |-> "idle"]
  /\ req = [p \in Procs |-> NoRequest]
  /\ caught = [p \in Procs |-> ""]
  /\ resp = [p \in Procs |-> NoResponse]
  /\ ops = [p \in Procs |-> <<>>]
  /\ diag = NoDiag

NotebookId == Get(JSONparse(diag.body), "notebookId")

\* error?.message
ErrorMessage(error) ==
  IF error.t \in {"null", "undefined"} THEN Undef ELSE Get(error, "message")

\* x?.length || 0
LengthOrZero(data) ==
  IF data.t \in {"null", "undefined"} THEN Num(0) ELSE Num(Len(data.v))

\* diagnostics.environment; SUPABASE_URL and SUPABASE_SERVICE_ROLE_KEY are set
\* (the storage client is built from them).
EnvironmentSection ==
  Obj([hasNotebookChatUrl |-> Bool(Truthy(config.NOTEBOOK_CHAT_URL)),
       hasNotebookGenerationAuth |-> Bool(Truthy(config.NOTEBOOK_GENERATION_AUTH)),
       hasSupabaseUrl |-> Bool(TRUE),
       hasSupabaseServiceKey |-> Bool(TRUE),
       notebookChatUrl |-> IF Truthy(config.NOTEBOOK_CHAT_URL)
                             THEN config.NOTEBOOK_CHAT_URL ELSE Str("NOT_SET")])

\* diagnostics.notebook
NotebookSection(notebook, notebookError) ==
  Stringified([exists |-> Bool(Truthy(notebook)),
               error |-> ErrorMessage(notebookError),
               data |-> notebook])

\* What from('sources').select('id, title, type, processing_status, created_at')
\* .eq('notebook_id', notebookId) resolves with.
DiagSourcesResult(notebookId, outcome) ==
  IF outcome = "error"
    THEN [data |-> Null, error |-> Obj([message |-> Str(StorageErrorMessage)])]
  ELSE [data |-> Arr(SelectSeq(
                   [i \in 1..Len(sources) |->
                      Obj([id |-> Str(sources[i].id),
                           notebook_id |-> Str(sources[i].notebook_id),
                           title |-> Str(sources[i].title),
                           processing_status |-> Str(sources[i].processing_status)])],
                   LAMBDA row : row.v.notebook_id = notebookId)),
        error |-> Null]

\* diagnostics.sources
SourcesSection(data, sourcesError) ==
  Stringified(
    [count |-> LengthOrZero(data),
     error |-> ErrorMessage(sourcesError),
     statuses |-> IF data.t \in {"null", "undefined"} THEN Undef
                  ELSE Arr([i \in 1..Len(data.v) |->
                              Obj([id |-> Get(data.v[i], "id"),
                                   title |-> Get(data.v[i], "title"),
                                   status |-> Get(data.v[i], "processing_status")])]),
     hasCompleted |-> Bool(hasProcessedSources(data))])

\* What from('documents').select('id, metadata').eq('metadata->notebook_id',
\* notebookId) resolves with.
DocumentsResult(notebookId, outcome) ==
  IF outcome = "error"
    THEN [data |-> Null, error |-> Obj([message |-> Str(StorageErrorMessage)])]
  ELSE [data |-> Arr(SelectSeq(
                   [i \in 1..Len(documents) |->
                      Obj([id |-> Str(documents[i].id),
                           metadata |-> Obj([notebook_id |-> Str(documents[i].notebook_id)])])],
                   LAMBDA row : row.v.metadata.v.notebook_id = notebookId)),
        error |-> Null]

\* A faulty variant: a read that returned rows at all counts as having documents
hasDocuments_AnyResult(data) == data.t \notin {"null", "undefined"}

\* (documents?.length || 0) > 0
hasDocuments(data) == LengthOrZero(data).v > 0

\* diagnostics.vectorStore
VectorStoreSection(data, documentsError) ==
  Stringified([documentCount |-> LengthOrZero(data),
               error |-> ErrorMessage(documentsError),
               hasDocuments |-> Bool(hasDocuments(data))])

\* What from('n8n_chat_histories').select('id, message').eq('session_id',
\* notebookId).order('id', {ascending: false}).limit(5) resolves with: the id of
\* a row is its position in the table.
ChatHistoryResult(notebookId, outcome) ==
  IF outcome = "error"
    THEN [data |-> Null, error |-> Obj([message |-> Str(StorageErrorMessage)])]
  ELSE LET ids == SelectSeq([i \in 1..Len(history) |-> i],
                            LAMBDA i : Str(history[i].session_id) = notebookId)
           n == IF Len(ids) < HistoryLimit THEN Len(ids) ELSE HistoryLimit
       IN [data |-> Arr([k \in 1..n |->
                           Obj([id |-> Num(ids[Len(ids) + 1 - k]),
                                message |-> history[ids[Len(ids) + 1 - k]].message])]),
           error |-> Null]

\* diagnostics.chatHistory
ChatHistorySection(data, chatError) ==
  Stringified(
    [messageCount |-> LengthOrZero(data),
     error |-> ErrorMessage(chatError),
     recentMessages |->
       IF data.t \in {"null", "undefined"} THEN Undef
       ELSE Arr([i \in 1..Len(data.v) |->
                   LET msg == data.v[i].v IN
                     Obj([id |-> msg.id,
                          type |-> Str(msg.message.type),
                          hasError |-> IF Truthy(Get(msg.message.response_metadata, "error"))
                                         THEN Get(msg.message.response_metadata, "error")
                                         ELSE Bool(FALSE)])])])

\* if (condition) { recommendations.push(text) }
Push(condition, text) == IF condition THEN <<Str(text)>> ELSE <<>>

\* A faulty variant: the recommendations are pushed in another order
Recommendations_UrlFirst(environment, notebook, srcs, vectorStore) ==
  Push(~Includes(Get(environment, "notebookChatUrl").v, "webhook"),
       "NOTEBOOK_CHAT_URL should be a valid n8n webhook URL") \o
  Push(~Truthy(Get(environment, "hasNotebookChatUrl")),
       "Set NOTEBOOK_CHAT_URL in Supabase Edge Function secrets") \o
  Push(~Truthy(Get(environment, "hasNotebookGenerationAuth")),
       "Set NOTEBOOK_GENERATION_AUTH in Supabase Edge Function secrets") \o
  Push(~Truthy(Get(notebook, "exists")),
       "Notebook not found - check the notebook ID") \o
  Push(~Truthy(Get(srcs, "hasCompleted")),
       "No completed sources found - wait for source processing to complete") \o
  Push(~Truthy(Get(vectorStore, "hasDocuments")),
       "No documents in vector store - check if sources were properly processed and embedded")

\* A faulty variant: the completed-sources check is left out
Recommendations_WithoutSources(environment, notebook, srcs, vectorStore) ==
  Push(~Truthy(Get(environment, "hasNotebookChatUrl")),
       "Set NOTEBOOK_CHAT_URL in Supabase Edge Function secrets") \o
  Push(~Truthy(Get(environment, "hasNotebookGenerationAuth")),
       "Set NOTEBOOK_GENERATION_AUTH in Supabase Edge Function secrets") \o
  Push(~Truthy(Get(notebook, "exists")),
       "Notebook not found - check the notebook ID") \o
  Push(~Truthy(Get(vectorStore, "hasDocuments")),
       "No documents in vector store - check if sources were properly processed and embedded") \o
  Push(/\ Truthy(Get(environment, "notebookChatUrl"))
       /\ ~Includes(Get(environment, "notebookChatUrl").v, "webhook"),
       "NOTEBOOK_CHAT_URL should be a valid n8n webhook URL")

\* Generate recommendations: the six checks, in the order of the code.
Recommendations(environment, notebook, srcs, vectorStore) ==
  Push(~Truthy(Get(environment, "hasNotebookChatUrl")),
       "Set NOTEBOOK_CHAT_URL in Supabase Edge Function secrets") \o
  Push(~Truthy(Get(environment, "hasNotebookGenerationAuth")),
       "Set NOTEBOOK_GENERATION_AUTH in Supabase Edge Function secrets") \o
  Push(~Truthy(Get(notebook, "exists")),
       "Notebook not found - check the notebook ID") \o
  Push(~Truthy(Get(srcs, "hasCompleted")),
       "No completed sources found - wait for source processing to complete") \o
  Push(~Truthy(Get(vectorStore, "hasDocuments")),
       "No documents in vector store - check if sources were properly processed and embedded") \o
  Push(/\ Truthy(Get(environment, "notebookChatUrl"))
       /\ ~Includes(Get(environment, "notebookChatUrl").v, "webhook"),
       "NOTEBOOK_CHAT_URL should be a valid n8n webhook URL")

\* recommendations.length === 0 ? 'HEALTHY' : 'ISSUES_FOUND'
OverallStatus(recommendations) ==
  IF Len(recommendations) = 0 THEN Str("HEALTHY") ELSE Str("ISSUES_FOUND")

\* JSON.stringify(diagnostics, null, 2), status 200
Report(notebookId, environment, notebook, srcs, vectorStore, chatHistory) ==
  LET recommendations == Recommendations(environment, notebook, srcs, vectorStore) IN
    Response(200, Stringified(
      [notebookId |-> notebookId,
       timestamp |-> Str(Now),
       environment |-> environment,
       notebook |-> notebook,
       sources |-> srcs,
       vectorStore |-> vectorStore,
       chatHistory |-> chatHistory,
       recommendations |-> Arr(recommendations),
       overallStatus |-> OverallStatus(recommendations)]))

DiagValidationError == Response(400, Obj([error |-> Str("Notebook ID is required")]))

\* catch (error): {error: error.message || 'Diagnostics failed', timestamp}
DiagnosticsFailed(message) ==
  Response(500, Obj([error |-> IF message # "" THEN Str(message) ELSE Str("Diagnostics failed"),
                     timestamp |-> Str(Now)]))

DiagUnchanged == UNCHANGED <<config, sources, history, webhook, pc, req, caught, resp, ops, documents>>

\* await req.json(), the notebookId check, diagnostics.environment.
DiagReceive(b) ==
  /\ diag.pc = "idle"
  /\ LET body == JSONparse(b) IN
       diag' =
         IF body.t = "SyntaxError"
           THEN [diag EXCEPT !.body = b, !.pc = "done",
                             !.resp = DiagnosticsFailed(BodyFaultMessage(b))]
         ELSE IF ~Truthy(Get(body, "notebookId"))
           THEN [diag EXCEPT !.body = b, !.pc = "done", !.resp = DiagValidationError]
         ELSE [diag EXCEPT !.body = b, !.pc = "notebook", !.environment = EnvironmentSection]
  /\ DiagUnchanged

\* One awaited read of the diagnostics: it rejects (the catch answers), or its
\* section is filled in and the handler goes on to the await named next.
DiagRead(on, outcome, section, value, next) ==
  diag' =
    IF outcome = "throw"
      THEN [diag EXCEPT !.ops = Append(@, [op |-> "select", on |-> on, res |-> "throw"]),
                        !.pc = "done",
                        !.resp = DiagnosticsFailed(StorageFaultMessage)]
    ELSE [diag EXCEPT !.ops = Append(@, [op |-> "select", on |-> on, res |-> outcome]),
                      ![section] = value,
                      !.pc = next]

\* Check notebook
DiagNotebook ==
  /\ diag.pc = "notebook"
  /\ \E outcome \in StorageOutcomes :
       LET r == NotebookResult(NotebookId, outcome) IN
         DiagRead("notebooks", outcome, "notebook", NotebookSection(r.data, r.error), "sources")
  /\ DiagUnchanged

\* Check sources
DiagSources ==
  /\ diag.pc = "sources"
  /\ \E outcome \in StorageOutcomes :
       LET r == DiagSourcesResult(NotebookId, outcome) IN
         DiagRead("sources", outcome, "sources", SourcesSection(r.data, r.error), "documents")
  /\ DiagUnchanged

\* Check vector store documents
DiagDocuments ==
  /\ diag.pc = "documents"
  /\ \E outcome \in StorageOutcomes :
       LET r == DocumentsResult(NotebookId, outcome) IN
         DiagRead("documents", outcome, "vectorStore", VectorStoreSection(r.data, r.error), "history")
  /\ DiagUnchanged

\* Check recent chat history, generate the recommendations, return the report.
DiagChatHistory ==
  /\ diag.pc = "history"
  /\ \E outcome \in StorageOutcomes :
       LET r == ChatHistoryResult(NotebookId, outcome)
           chatHistory == ChatHistorySection(r.data, r.error)
       IN diag' =
            IF outcome = "throw"
              THEN [diag EXCEPT !.ops = Append(@, [op |-> "select", on |-> "n8n_chat_histories", res |-> "throw"]),
                                !.pc = "done",
                                !.resp = DiagnosticsFailed(StorageFaultMessage)]
            ELSE [diag EXCEPT !.ops = Append(@, [op |-> "select", on |-> "n8n_chat_histories", res |-> outcome]),
                              !.chatHistory = chatHistory,
                              !.pc = "done",
                              !.resp = Report(NotebookId, diag.environment, diag.notebook,
                                              diag.sources, diag.vectorStore, chatHistory)]
  /\ DiagUnchanged

DiagArrive == \E b \in DiagBodies : DiagReceive(b)

NextDiag == DiagArrive \/ DiagNotebook \/ DiagSources \/ DiagDocuments \/ DiagChatHistory

\* One diagnostics request, any body, against any storage and configuration.
SpecDiag == InitDiag /\ [][NextDiag]_vars

(***************************************************************************)
(* A diagnostics request followed by a relay request for the notebook it   *)
(* reported on, with the configuration and the tables as the diagnostics   *)
(* found them.                                                             *)
(***************************************************************************)
RelayBodyFor(notebookId) ==
  "{\"session_id\":\"" \o notebookId.v \o "\",\"message\":\"hi\"}"

RelayAfterReport ==
  /\ diag.pc = "done" /\ diag.resp.status = 200
  /\ \E h \in Handlers : Receive(1, h, RelayBodyFor(NotebookId))

NextBoth == NextDiag \/ RelayAfterReport \/ Step(1)

SpecBoth == InitDiag /\ [][NextBoth]_vars

(***************************************************************************)
(* Vocabulary of the claims.                                               *)
(***************************************************************************)
Arrived(p) == req[p] # NoRequest
Returned(p) == pc[p] = "done"
ParsedBody(p) == JSONparse(req[p].body)

\* Field k of the request body is there and is not the empty string.
FieldPresent(p, k) ==
  /\ ParsedBody(p).t = "obj"
  /\ k \in DOMAIN ParsedBody(p).v
  /\ ParsedBody(p).v[k] # Str("")

\* The i-th call of request p was op on `on` and ended res.
CallIs(p, i, op, on, res) ==
  /\ Len(ops[p]) >= i
  /\ ops[p][i].op = op /\ ops[p][i].on = on /\ ops[p][i].res = res

Dispatched(p) == \E i \in 1..Len(ops[p]) : ops[p][i].op = "fetch"
RowsOf(p) == {i \in 1..Len(history) : history[i].by = p}
AssistantRowsOf(p) == {i \in RowsOf(p) : history[i].message.type = "ai"}

ErrorOf(p) == Get(resp[p].body, "error")
DetailsOf(p) == Get(resp[p].body, "details")

\* Request p got past validation, found its notebook and read sources of which
\* one is completed.
Eligible(p) ==
  /\ CallIs(p, 1, "select", "notebooks", "ok")
  /\ CallIs(p, 2, "select", "sources", "ok")
  /\ \E i \in 1..Len(sources) :
       /\ sources[i].notebook_id = SessionId(p).v
       /\ sources[i].processing_status = "completed"

\* The human-message insert of request p returned (a result, not a fault).
UserMessageWritten(p) ==
  Len(ops[p]) >= 3 /\ ops[p][3].op = "insert" /\ ops[p][3].on = "human"
    /\ ops[p][3].res \in {"ok", "error"}

\* Request p dispatched and the webhook answered with a status and a body.
Answered(p) == CallIs(p, 4, "fetch", "webhook", "ok")
Status2xx == webhook.status \in 200..299
ConfigErrors == {Str("Chat service not configured"),
                 Str("Chat service authentication not configured")}

(***************************************************************************)
(* C1: a relay request whose session_id or message is missing or empty is  *)
(* answered 400 'session_id and message are required' with one presence    *)
(* flag per field, and makes no storage read, storage write or dispatch.   *)
(***************************************************************************)
C1_Case(p) ==
  /\ Arrived(p) /\ ParsedBody(p).t = "obj"
  /\ ~FieldPresent(p, "session_id") \/ ~FieldPresent(p, "message")

C1_ValidationError ==
  \A p \in Procs : C1_Case(p) =>
    /\ Returned(p)
    /\ resp[p].status = 400
    /\ resp[p].body =
         Obj([error |-> Str("session_id and message are required"),
              details |-> Obj([session_id |-> Bool(FieldPresent(p, "session_id")),
                               message |-> Bool(FieldPresent(p, "message"))])])
    /\ ops[p] = <<>>
    /\ RowsOf(p) = {}

C1_Witness ==
  \E p \in Procs :
    C1_Case(p) /\ Returned(p) /\ FieldPresent(p, "session_id") /\ ~FieldPresent(p, "message")

(***************************************************************************)
(* C2: a valid relay request whose notebook lookup returns an error or no  *)
(* single record is answered with the 404 not-found shape and dispatches   *)
(* nothing.                                                                *)
(***************************************************************************)
C2_Case(p) == CallIs(p, 1, "select", "notebooks", "error")

C2_NotFound ==
  \A p \in Procs :
    /\ C2_Case(p) =>
         /\ Returned(p)
         /\ resp[p].status = 404
         /\ ErrorOf(p) = Str("Notebook not found or access denied")
         /\ DetailsOf(p) \in {Str(NoRowsMessage), Str(StorageErrorMessage)}
         /\ Len(ops[p]) = 1
         /\ RowsOf(p) = {}
    \* an identifier that is no row of the table never gets past the lookup
    /\ (Len(ops[p]) >= 1 /\ SessionId(p).v \notin Notebooks) => ops[p][1].res # "ok"

C2_Witness ==
  \E p \in Procs :
    C2_Case(p) /\ Returned(p) /\ SessionId(p) = Str("nb2") /\ resp[p].status = 404

(***************************************************************************)
(* C3: a valid relay request on an existing notebook that has no source,   *)
(* or no source with processing_status 'completed', is answered with the   *)
(* 400 ineligible shape (wait for processing) and dispatches nothing.      *)
(***************************************************************************)
C3_Case(p) ==
  /\ CallIs(p, 1, "select", "notebooks", "ok")
  /\ CallIs(p, 2, "select", "sources", "ok")
  /\ \A i \in 1..Len(sources) :
       sources[i].notebook_id = SessionId(p).v => sources[i].processing_status # "completed"

C3_Ineligible ==
  \A p \in Procs : C3_Case(p) =>
    /\ Returned(p)
    /\ resp[p].status = 400
    /\ resp[p].body =
         Obj([error |-> Str("No processed sources available for this notebook"),
              details |-> Str("Please wait for sources to finish processing before chatting")])
    /\ ~Dispatched(p)
    /\ Len(ops[p]) = 2
    /\ RowsOf(p) = {}

C3_Witness ==
  \E p \in Procs :
    C3_Case(p) /\ Returned(p) /\ Len(sources) = 1 /\ resp[p].status = 400

(***************************************************************************)
(* C4: a relay request that ends with a validation, not-found, ineligible  *)
(* or configuration error has appended no record to the chat history and   *)
(* has dispatched nothing.  (The handler checks the configuration after    *)
(* the human-message insert, so this fails for the configuration errors.)  *)
(***************************************************************************)
C4_EarlyError(p) ==
  /\ Returned(p)
  /\ \/ resp[p].status \in {400, 404}
     \/ resp[p].status = 500 /\ ErrorOf(p) \in ConfigErrors

C4_NoSideEffects ==
  \A p \in Procs : C4_EarlyError(p) => (RowsOf(p) = {} /\ ~Dispatched(p))

(***************************************************************************)
(* C5: for a valid relay request on an existing notebook with a completed  *)
(* source, once the human-message insert has returned, an absent           *)
(* NOTEBOOK_CHAT_URL gives the 500 configuration error whose details name  *)
(* NOTEBOOK_CHAT_URL, and no dispatch is attempted.                        *)
(***************************************************************************)
C5_Case(p) ==
  Eligible(p) /\ UserMessageWritten(p) /\ config.NOTEBOOK_CHAT_URL = Undef

C5_MissingUrl ==
  \A p \in Procs : C5_Case(p) =>
    /\ Returned(p)
    /\ resp[p].status = 500
    /\ ErrorOf(p) = Str("Chat service not configured")
    /\ DetailsOf(p).t = "str" /\ Includes(DetailsOf(p).v, "NOTEBOOK_CHAT_URL")
    /\ ~Dispatched(p)
    /\ Len(ops[p]) = 3

C5_Witness ==
  \E p \in Procs :
    C5_Case(p) /\ Returned(p) /\ config.NOTEBOOK_GENERATION_AUTH = Str("secret")

(***************************************************************************)
(* C6: a relay request that dispatches and receives a non-2xx status S     *)
(* inserts an 'ai' row for its conversation with response_metadata         *)
(* {error: true, status: S} (the row is in the history when storage        *)
(* accepts the insert) and, the insert having returned, is answered 500    *)
(* with an error text that contains S and the raw answer body as details.  *)
(***************************************************************************)
C6_Case(p) ==
  /\ Answered(p) /\ ~Status2xx
  /\ Len(ops[p]) >= 5 /\ ops[p][5].res \in {"ok", "error"}

C6_TransportFailure ==
  \A p \in Procs :
    /\ (Answered(p) /\ ~Status2xx) => pc[p] \in {"save_transport_error", "catch", "done"}
    /\ C6_Case(p) =>
         /\ Returned(p)
         /\ CallIs(p, 5, "insert", "ai", ops[p][5].res)
         /\ resp[p].status = 500
         /\ ErrorOf(p).t = "str" /\ Includes(ErrorOf(p).v, ToString(webhook.status))
         /\ DetailsOf(p) = Str(webhook.text)
         /\ ops[p][5].res = "ok" =>
              \E i \in AssistantRowsOf(p) :
                /\ history[i].session_id = SessionId(p).v
                /\ history[i].message.response_metadata =
                     Obj([error |-> Bool(TRUE), status |-> Num(webhook.status)])

C6_Witness ==
  \E p \in Procs :
    /\ C6_Case(p) /\ Returned(p) /\ webhook.status = 503
    /\ ops[p][5].res = "ok" /\ AssistantRowsOf(p) # {}

(***************************************************************************)
(* C7: a relay request that dispatches and receives a 2xx status with a    *)
(* body that parses as JSON and either has an `error` field or has an      *)
(* `output` array with an element whose text contains 'Sorry, I            *)
(* encountered an error' is answered 500, never with the success envelope, *)
(* and inserts an assistant error row (response_metadata.error = true,     *)
(* carrying the parsed answer).                                            *)
(***************************************************************************)
HasErrorField(x) == x.t = "obj" /\ "error" \in DOMAIN x.v

HasApologyItem(x) ==
  /\ x.t = "obj" /\ "output" \in DOMAIN x.v /\ x.v.output.t = "arr"
  /\ \E i \in 1..Len(x.v.output.v) :
       LET item == x.v.output.v[i] IN
         /\ item.t = "obj" /\ "text" \in DOMAIN item.v /\ item.v.text.t = "str"
         /\ Includes(item.v.text.v, "Sorry, I encountered an error")

C7_Case(p) ==
  /\ Answered(p) /\ Status2xx
  /\ JSONparse(webhook.text) # SyntaxError
  /\ HasErrorField(JSONparse(webhook.text)) \/ HasApologyItem(JSONparse(webhook.text))

C7_SemanticFailure ==
  \A p \in Procs : (C7_Case(p) /\ Returned(p)) =>
    /\ resp[p].status = 500
    /\ CallIs(p, 5, "insert", "ai", ops[p][5].res)

(***************************************************************************)
(* C8: a relay request that dispatches and receives a 2xx status whose     *)
(* body does not parse as JSON, or parses but has neither an `error` field *)
(* nor an apology item, or on which the classification itself faults, is   *)
(* answered 200 {success: true, message: 'Message sent to chat service     *)
(* successfully', data: <the raw body>} and inserts no assistant row.      *)
(***************************************************************************)
C8_Case(p) ==
  /\ Answered(p) /\ Status2xx
  /\ \/ JSONparse(webhook.text) = SyntaxError
     \/ ~HasErrorField(JSONparse(webhook.text)) /\ ~HasApologyItem(JSONparse(webhook.text))
     \/ IndicatesError(JSONparse(webhook.text)) = "fault"

C8_Success ==
  \A p \in Procs : C8_Case(p) =>
    /\ Returned(p)
    /\ resp[p].status = 200
    /\ resp[p].body =
         Obj([success |-> Bool(TRUE),
              message |-> Str("Message sent to chat service successfully"),
              data |-> Str(webhook.text)])
    /\ Len(ops[p]) = 4
    /\ AssistantRowsOf(p) = {}

\* scenario A (plain text "ok") and a body on which the classification faults
C8_Witness ==
  \E p \in Procs :
    /\ C8_Case(p) /\ Returned(p) /\ req[p].handler = "relay2"
    /\ webhook.text \in {"ok", "null"}

(***************************************************************************)
(* C9: two runs of one request (same handler, same body) against the same  *)
(* storage, configuration and webhook that differ only in the outcome of   *)
(* the human-message insert.  Runs p and q are such a pair when p's insert *)
(* succeeded, q's ended `outcome`, and every later call both made ended    *)
(* the same way.                                                           *)
(***************************************************************************)
C9_Pair(p, q, outcome) ==
  /\ Returned(p) /\ Returned(q) /\ req[p] = req[q]
  /\ CallIs(p, 3, "insert", "human", "ok")
  /\ CallIs(q, 3, "insert", "human", outcome)
  /\ \A i \in 4..Len(ops[p]) : i <= Len(ops[q]) => ops[p][i] = ops[q][i]

C9_SameOutcome(p, q) ==
  /\ resp[p] = resp[q]
  /\ Len(ops[p]) = Len(ops[q])
  /\ Dispatched(p) <=> Dispatched(q)

C10_Case(p) ==
  /\ Returned(p) /\ Answered(p)
  /\ Len(ops[p]) >= 5 /\ ops[p][5].op = "insert" /\ ops[p][5].on = "ai"
  /\ ops[p][5].res \in {"error", "throw"}

C10_WriteFailureSwallowed ==
  \A p \in Procs : C10_Case(p) =>
    /\ resp[p].status = 500
    /\ ErrorOf(p) = IF Status2xx THEN Str("n8n workflow returned an error")
                    ELSE Str("n8n webhook failed with status: " \o ToString(webhook.status))

(***************************************************************************)
(* C11: every fault a relay request raises (the body read, a storage call  *)
(* or the webhook call rejecting) is caught at the outermost boundary and  *)
(* the request is answered 500 with the text of that fault as its error.   *)
(* (A rejection of the semantic-failure insert is caught by the            *)
(* classification's own catch (parseError) instead, and the request is     *)
(* answered with the success envelope.)                                    *)
(***************************************************************************)
C11_Faults(p) ==
  {i \in 1..Len(ops[p]) : ops[p][i].res = "throw"}

C11_BodyFault(p) == Arrived(p) /\ ParsedBody(p) = SyntaxError

C11_FaultText(p) ==
  IF C11_BodyFault(p) THEN BodyFaultMessage(req[p].body)
  ELSE LET i == CHOOSE j \in C11_Faults(p) : \A k \in C11_Faults(p) : j <= k IN
    IF ops[p][i].op = "fetch" THEN webhook.text ELSE StorageFaultMessage

C11_FaultsSurface ==
  \A p \in Procs :
    (Returned(p) /\ (C11_BodyFault(p) \/ C11_Faults(p) # {})) =>
      /\ resp[p].status = 500
      /\ ErrorOf(p) = Str(C11_FaultText(p))

(***************************************************************************)
(* C12: every relay response with status 400, 404 or 500 has a body with   *)
(* an `error` field (a non-empty string) and carries the two CORS headers  *)
(* and Content-Type application/json.                                      *)
(***************************************************************************)
C12_ErrorResponse(p) == Returned(p) /\ resp[p].status \in {400, 404, 500}

C12_ErrorShape ==
  \A p \in Procs :
    /\ Returned(p) => resp[p].status \in {200, 400, 404, 500}
    /\ C12_ErrorResponse(p) =>
         /\ resp[p].body.t = "obj"
         /\ "error" \in DOMAIN resp[p].body.v
         /\ ErrorOf(p).t = "str" /\ ErrorOf(p).v # ""
         /\ \A h \in DOMAIN corsHeaders :
              h \in DOMAIN resp[p].headers /\ resp[p].headers[h] = corsHeaders[h]
         /\ "Content-Type" \in DOMAIN resp[p].headers
         /\ resp[p].headers["Content-Type"] = "application/json"

\* the semantic-failure path
C12_Witness ==
  \E p \in Procs :
    /\ C12_ErrorResponse(p)
    /\ ErrorOf(p) = Str("n8n workflow returned an error")
    /\ "n8n_response" \in DOMAIN resp[p].body.v

(***************************************************************************)
(* Vocabulary of the claims about the diagnostics.                         *)
(***************************************************************************)
DiagReturned == diag.pc = "done"

\* The diagnostics request was answered with a report.
Reported == DiagReturned /\ diag.resp.status = 200

RecommendationsOf == Get(diag.resp.body, "recommendations").v
OverallStatusOf == Get(diag.resp.body, "overallStatus")

DiagReadFailed(how) == \E i \in 1..Len(diag.ops) : diag.ops[i].res \in how

NoDocumentsText ==
  "No documents in vector store - check if sources were properly processed and embedded"

(***************************************************************************)
(* C13: in every diagnostics report overallStatus is 'HEALTHY' iff the     *)
(* recommendations are empty and 'ISSUES_FOUND' otherwise, and the         *)
(* recommendations appear in the fixed relative order: missing webhook     *)
(* endpoint, missing shared secret, notebook not found, no completed       *)
(* source, no indexed documents, endpoint not recognizable as a webhook    *)
(* URL.                                                                    *)
(***************************************************************************)
C13_Order ==
  << "Set NOTEBOOK_CHAT_URL in Supabase Edge Function secrets",
     "Set NOTEBOOK_GENERATION_AUTH in Supabase Edge Function secrets",
     "Notebook not found - check the notebook ID",
     "No completed sources found - wait for source processing to complete",
     NoDocumentsText,
     "NOTEBOOK_CHAT_URL should be a valid n8n webhook URL" >>

C13_Position(recommendation) ==
  CHOOSE k \in 1..Len(C13_Order) : Str(C13_Order[k]) = recommendation

C13_Verdict ==
  Reported =>
    /\ OverallStatusOf \in {Str("HEALTHY"), Str("ISSUES_FOUND")}
    /\ OverallStatusOf = Str("HEALTHY") <=> RecommendationsOf = <<>>
    /\ \A i \in 1..Len(RecommendationsOf) :
         \E k \in 1..Len(C13_Order) : Str(C13_Order[k]) = RecommendationsOf[i]
    /\ \A i, j \in 1..Len(RecommendationsOf) :
         i < j => C13_Position(RecommendationsOf[i]) < C13_Position(RecommendationsOf[j])

\* a report with all six recommendations
C13_Witness ==
  Reported /\ Len(RecommendationsOf) = Len(C13_Order) /\ OverallStatusOf = Str("ISSUES_FOUND")

(***************************************************************************)
(* C14: every diagnostics report on a notebook that has no row in the      *)
(* documents table contains the 'No documents in vector store'             *)
(* recommendation and has overallStatus 'ISSUES_FOUND', whatever the       *)
(* configuration, the notebook lookup and the sources are.                 *)
(***************************************************************************)
C14_Case ==
  /\ Reported
  /\ \A i \in 1..Len(documents) : Str(documents[i].notebook_id) # NotebookId

C14_NoDocuments ==
  C14_Case =>
    /\ \E i \in 1..Len(RecommendationsOf) : RecommendationsOf[i] = Str(NoDocumentsText)
    /\ OverallStatusOf = Str("ISSUES_FOUND")

\* everything else is in order: the only recommendation is the one about documents
C14_Witness ==
  /\ C14_Case
  /\ ~DiagReadFailed({"error", "throw"})
  /\ RecommendationsOf = <<Str(NoDocumentsText)>>

(***************************************************************************)
(* C15: when a storage read of the diagnostics fails, the request is       *)
(* answered 500 with the single top-level shape {error, timestamp} and     *)
(* never with a 200 report that holds the other sections.  (A read that    *)
(* fails by returning an error result is recorded in its section's `error` *)
(* field and the 200 report is returned all the same; only a read that     *)
(* rejects gives the top-level shape.)                                     *)
(***************************************************************************)
C15_TopLevelError ==
  (DiagReturned /\ DiagReadFailed({"error", "throw"})) =>
    /\ diag.resp.status = 500
    /\ DOMAIN diag.resp.body.v = {"error", "timestamp"}

(***************************************************************************)
(* C16: for a relay request that passes validation the configuration check *)
(* comes first: with NOTEBOOK_CHAT_URL or NOTEBOOK_GENERATION_AUTH absent  *)
(* the request makes no notebook lookup, no sources read and no            *)
(* human-message insert, and is answered with the 500 configuration error. *)
(* (The handler reads the configuration only after the human-message       *)
(* insert, so the lookup and the eligibility check win.)                   *)
(***************************************************************************)
C16_Case(p) ==
  /\ Arrived(p)
  /\ FieldPresent(p, "session_id") /\ FieldPresent(p, "message")
  /\ config.NOTEBOOK_CHAT_URL = Undef \/ config.NOTEBOOK_GENERATION_AUTH = Undef

C16_ConfigurationFirst ==
  \A p \in Procs : C16_Case(p) =>
    /\ ops[p] = <<>>
    /\ Returned(p) => (resp[p].status = 500 /\ ErrorOf(p) \in ConfigErrors)

(***************************************************************************)
(* C17: within one relay request the human-message insert is attempted     *)
(* before the webhook dispatch, and an assistant row is inserted only      *)
(* after the dispatch has returned and only when the webhook's answer is a *)
(* transport failure (non-2xx) or a semantic failure (an error field or an *)
(* apology item); no assistant row precedes the request's dispatch.        *)
(***************************************************************************)
C17_DispatchFailed ==
  \/ ~Status2xx
  \/ HasErrorField(JSONparse(webhook.text))
  \/ HasApologyItem(JSONparse(webhook.text))

C18_Fetches(p) == {i \in 1..Len(ops[p]) : ops[p][i].op = "fetch"}

C18_SingleDispatch ==
  \A p \in Procs :
    /\ Cardinality(C18_Fetches(p)) <= 1
    /\ \A i \in 1..Len(ops[p]) : \A j \in C18_Fetches(p) :
         (ops[p][i].res = "throw" \/ ops[p][i].on = "ai") => j <= i

\* a fetch that rejected, caught and answered
C18_Witness ==
  \E p \in Procs :
    /\ Returned(p) /\ caught[p] # ""
    /\ Cardinality(C18_Fetches(p)) = 1 /\ webhook.threw

(***************************************************************************)
(* C19: when a fault is caught after validation and storage accepts every  *)
(* write, the catch recovers session_id from the request body and the      *)
(* history holds, for that conversation, an assistant row with             *)
(* response_metadata {error: true, errorMessage} when the 500 is returned. *)
(* (req.json() has consumed the body, so req.clone() in the catch throws   *)
(* and the row is never inserted.)                                         *)
(***************************************************************************)
C19_Case(p) ==
  /\ Returned(p) /\ caught[p] # ""
  /\ Len(ops[p]) >= 1
  /\ \A i \in 1..Len(ops[p]) : ops[p][i].op = "insert" => ops[p][i].res = "ok"

C19_TechnicalErrorRecorded ==
  \A p \in Procs : C19_Case(p) =>
    \E i \in AssistantRowsOf(p) :
      /\ history[i].session_id = SessionId(p).v
      /\ history[i].message.response_metadata =
           Obj([error |-> Bool(TRUE), errorMessage |-> Str(caught[p])])

(***************************************************************************)
(* C20: a sources read that fails is answered differently from a read that *)
(* shows no completed source: 500 'Failed to check notebook sources' when  *)
(* the read returns an error (500 in any case), never the 400 ineligible   *)
(* response; in both cases no human message is written and nothing is      *)
(* dispatched.                                                             *)
(***************************************************************************)
C20_ReadFailed(p, how) ==
  /\ CallIs(p, 1, "select", "notebooks", "ok")
  /\ Len(ops[p]) >= 2 /\ ops[p][2].op = "select" /\ ops[p][2].on = "sources"
  /\ ops[p][2].res \in how

C20_ReadFailureDistinct ==
  \A p \in Procs :
    /\ C20_ReadFailed(p, {"error"}) =>
         /\ Returned(p)
         /\ resp[p].status = 500
         /\ ErrorOf(p) = Str("Failed to check notebook sources")
         /\ DetailsOf(p) = Str(StorageErrorMessage)
    /\ (C20_ReadFailed(p, {"error", "throw"}) /\ Returned(p)) =>
         /\ resp[p].status = 500
         /\ resp[p] # IneligibleError
         /\ Len(ops[p]) = 2 /\ RowsOf(p) = {} /\ ~Dispatched(p)
    /\ (C3_Case(p) /\ Returned(p)) =>
         /\ resp[p] = IneligibleError
         /\ Len(ops[p]) = 2 /\ RowsOf(p) = {} /\ ~Dispatched(p)

\* the read of a notebook with a completed source returns an error
C20_Witness ==
  \E p \in Procs :
    /\ C20_ReadFailed(p, {"error"}) /\ Returned(p)
    /\ \E i \in 1..Len(sources) : sources[i].processing_status = "completed"

(***************************************************************************)
(* C21: under every interleaving of concurrent relay requests on one       *)
(* conversation the chat history is append-only: a step leaves it as it is *)
(* or adds one row at its end, no row is changed or removed, a request     *)
(* adds at most one human row, and a request's human row precedes the      *)
(* assistant error row of the same request.                                *)
(***************************************************************************)
C21_HumanRowsOf(p) == {i \in RowsOf(p) : history[i].message.type = "human"}

C21_PerRequest ==
  \A p \in Procs :
    /\ Cardinality(C21_HumanRowsOf(p)) <= 1
    /\ \A h \in C21_HumanRowsOf(p) : \A a \in AssistantRowsOf(p) : h < a

C21_Appends ==
  \/ history' = history
  \/ /\ Len(history') = Len(history) + 1
     /\ SubSeq(history', 1, Len(history)) = history

C21_AppendOnly == []C21_PerRequest /\ [][C21_Appends]_vars

\* the rows of two requests interleave: human, human, assistant, assistant
C21_Witness ==
  \E p, q \in Procs :
    /\ p # q /\ Len(history) >= 4
    /\ history[1].by = p /\ history[1].message.type = "human"
    /\ history[2].by = q /\ history[2].message.type = "human"
    /\ history[3].by = p /\ history[3].message.type = "ai"
    /\ history[4].by = q /\ history[4].message.type = "ai"

(***************************************************************************)
(* C22: when the diagnostics report for a notebook says 'HEALTHY' and the  *)
(* configuration and the tables stay as they are, a relay request with     *)
(* that notebook as session_id and a non-empty message is not rejected     *)
(* with 400, with 404 or with a configuration 500: once its storage calls  *)
(* have returned without a failure it dispatches to the webhook.           *)
(***************************************************************************)
C22_Healthy == Reported /\ OverallStatusOf = Str("HEALTHY")

C22_Case(p) ==
  /\ C22_Healthy
  /\ Arrived(p) /\ SessionId(p) = NotebookId /\ FieldPresent(p, "message")

C22_StorageFailed(p) ==
  \E i \in 1..Len(ops[p]) : ops[p][i].op # "fetch" /\ ops[p][i].res # "ok"

C22_Agreement ==
  \A p \in Procs : C22_Case(p) =>
    /\ resp[p].status # 400
    /\ ~(resp[p].status = 500 /\ ErrorOf(p) \in ConfigErrors)
    /\ resp[p].status = 404 => CallIs(p, 1, "select", "notebooks", "error")
    /\ ~C22_StorageFailed(p) =>
         /\ resp[p].status # 404
         /\ Len(ops[p]) = 3 => pc[p] = "dispatch"
         /\ Returned(p) => Dispatched(p)

\* a healthy report, then a relay that dispatched and was answered 200
C22_Witness ==
  \E p \in Procs :
    /\ C22_Case(p) /\ ~C22_StorageFailed(p)
    /\ Returned(p) /\ Dispatched(p) /\ resp[p].status = 200

(***************************************************************************)
(* C23: a diagnostics report holds the 'NOTEBOOK_CHAT_URL should be a      *)
(* valid n8n webhook URL' recommendation exactly when NOTEBOOK_CHAT_URL is *)
(* set and its value does not contain 'webhook'; when it is not set the    *)
(* report holds 'Set NOTEBOOK_CHAT_URL ...' and not the invalid-URL        *)
(* recommendation.  (The report stores the unset value as 'NOT_SET', which *)
(* is truthy and has no 'webhook' in it, so the invalid-URL recommendation *)
(* is pushed as well.)                                                     *)
(***************************************************************************)
C23_Recommends(text) ==
  \E i \in 1..Len(RecommendationsOf) : RecommendationsOf[i] = Str(text)

C23_UrlConfigured == Truthy(config.NOTEBOOK_CHAT_URL)

C23_InvalidUrlRule ==
  Reported =>
    /\ C23_Recommends("NOTEBOOK_CHAT_URL should be a valid n8n webhook URL") <=>
         (C23_UrlConfigured /\ ~Includes(config.NOTEBOOK_CHAT_URL.v, "webhook"))
    /\ ~C23_UrlConfigured =>
         /\ C23_Recommends("Set NOTEBOOK_CHAT_URL in Supabase Edge Function secrets")
         /\ ~C23_Recommends("NOTEBOOK_CHAT_URL should be a valid n8n webhook URL")

====
